---- MODULE Spec2Model ----
(***************************************************************************)
(* FileFlow backend: the quota ledger kept by the file endpoints           *)
(* (app/api/v1/files.py, app/api/v1/auth.py) and the Share transaction     *)
(* records (app/models/share.py, app/api/v1/shares.py).                    *)
(*                                                                         *)
(* A state is a committed state of the relational store plus the response  *)
(* of the last request.  Every request handler is one action: it runs in   *)
(* one database session (app/db/session.py get_db) and either commits all  *)
(* of its changes or raises and is rolled back.                            *)
(*                                                                         *)
(* Byte counts are scaled: the 5 GiB default quota, the 100 MB upload      *)
(* limit and the length of Welcome.txt keep their order                    *)
(* (WelcomeSize < MaxFileSize < DefaultQuota) but not their magnitude.     *)
(* A nullable column holds 0 for NULL; ids and timestamps start at 1.      *)
(* Primary keys are never reused: a row keeps its index in its table, and  *)
(* a row that was physically deleted has present = FALSE.                  *)
(***************************************************************************)
EXTENDS Integers, Sequences, FiniteSets, TLC

\* ---------------------------------------------------------------- bounds
MaxUsers == 2
\* requests are handled at times 1..MaxTime, one per tick of the clock
MaxTime == 4
\* the share engine is explored from two registered users (time 3) to MaxShareTime
MaxShareTime == 6
MaxShares == 2
\* the view limit a link share may carry
MaxViews == 2
\* concurrent record_view transactions on one Share
MaxViewers == 3
\* the API as a whole is explored from the empty store to MaxApiTime
MaxApiTime == 5

\* ------------------------------------------------------ program constants
\* User.storage_quota_bytes default (5368709120), scaled
DefaultQuota == 3
\* settings.MAX_FILE_SIZE_MB * 1024 * 1024, scaled
MaxFileSize == 2
\* len(welcome_content), scaled
WelcomeSize == 1

UserIds == 1..MaxUsers

\* e-mail addresses: user u registers with address u; MaxUsers + 1 is the
\* address of a recipient without an account
Emails == 1..(MaxUsers + 1)

\* values generate_transaction_id and the share_token generator may return
TxIds == 1..MaxShares
Tokens == 1..MaxShares

Viewers == 1..MaxViewers

DefaultFolders ==
    <<"Bills", "Hospital Reports", "Company", "Education", "Receipts", "Personal">>

VARIABLES
    users,                \* ids of the rows of table users (a user's email is its id)
    storage_used_bytes,   \* User.storage_used_bytes, per user id
    storage_quota_bytes,  \* User.storage_quota_bytes, per user id
    folders,              \* rows of table folders, indexed by id
    files,                \* rows of table files, indexed by id
    counted,              \* history: counted[f] iff files[f].size_bytes was ever added to the ledger
    shares,               \* rows of table shares, indexed by id
    schema,               \* how the tables were built: "metadata" (create_all) or "migration"
    sessions,             \* open record_view transactions, per viewer
    rowlock,              \* the viewer holding the row lock on the viewed Share, 0 for none
    jobs,                 \* the Celery tasks dispatched with .delay(), in order of dispatch
    now,                  \* datetime.utcnow()
    resp                  \* the last request and its response

ledger == <<users, storage_used_bytes, storage_quota_bytes, folders, files, counted>>
views == <<sessions, rowlock, jobs>>
vars == <<ledger, shares, schema, views, now, resp>>

\* ---------------------------------------------------------------- helpers
\* a response with a JSON body
ReplyBody(op, u, target, code, detail, body) ==
    [op |-> op, user |-> u, target |-> target, size |-> 0, code |-> code,
     detail |-> detail, body |-> body]

\* a response whose body the model does not look at
Reply(op, u, target, size, code, detail) ==
    [op |-> op, user |-> u, target |-> target, size |-> size, code |-> code,
     detail |-> detail, body |-> <<>>]

\* one request is handled per tick of the clock
Tick == now' = now + 1

\* a lookup that does not look at the owner
FindFileAnyOwner(file_id, u) ==
    IF file_id \in 1..Len(files) /\ files[file_id].present THEN file_id ELSE 0

\* select(File).where(File.id == file_id, File.owner_user_id == current_user.id)
\* .scalar_one_or_none(): the id of the row, 0 for None
FindFile(file_id, u) ==
    IF /\ file_id \in 1..Len(files)
       /\ files[file_id].present
       /\ files[file_id].owner_user_id = u
    THEN file_id ELSE 0

\* current_user.storage_used_bytes + size_bytes > current_user.storage_quota_bytes
QuotaExceeded(used, size, quota) == used + size > quota

\* current_user.storage_used_bytes += size_bytes
Credit(used, size) == used + size

\* a delete_file that forgets the ledger
DebitDropped(used, size) == used

\* current_user.storage_used_bytes -= file.size_bytes
Debit(used, size) == used - size

\* select(Folder).where(owner_user_id == user.id, name == "Personal"), 0 for None
PersonalFolder(fs, u) ==
    LET hits == {i \in 1..Len(fs) : fs[i].owner_user_id = u /\ fs[i].name = "Personal"}
    IN  IF hits = {} THEN 0 ELSE CHOOSE i \in hits : TRUE

\* File(...): the row the handlers insert at time t; checksum_sha256 is the
\* placeholder "pending" in every one of them
NewFile(u, folder_id, filename, size, status, t) ==
    [owner_user_id |-> u, folder_id |-> folder_id, filename |-> filename,
     size_bytes |-> size, checksum_sha256 |-> "pending", status |-> status,
     thumbnail_url |-> 0, created_at |-> t, deleted_at |-> 0, present |-> TRUE]

\* ------------------------------------------------------------------- Init
\* no record_view transaction is open and no task has been dispatched
NoSessions ==
    /\ sessions = [v \in Viewers |-> [pc |-> "idle", share |-> 0, seen |-> <<>>]]
    /\ rowlock = 0
    /\ jobs = <<>>

Init ==
    /\ users = {}
    /\ storage_used_bytes = [u \in UserIds |-> 0]
    /\ storage_quota_bytes = [u \in UserIds |-> 0]
    /\ folders = <<>>
    /\ files = <<>>
    /\ counted = <<>>
    /\ shares = <<>>
    /\ schema \in {"metadata", "migration"}
    /\ NoSessions
    /\ now = 1
    /\ resp = Reply("none", 0, 0, 0, 0, "")

\* ---------------------------------------------------------------- actions
\* process_file_ocr.delay(...); generate_thumbnail.delay(...): both tasks are
\* put on the queue for the File and the handler goes on
Dispatched(queue, file_id) ==
    queue \o <<[task |-> "process_file_ocr", file_id |-> file_id, state |-> "queued", runs |-> 0],
               [task |-> "generate_thumbnail", file_id |-> file_id, state |-> "queued", runs |-> 0]>>

\* POST /auth/register.  storage_ok: whether storage_service.upload_file_obj
\* of Welcome.txt succeeds (a failure is caught and only printed).
Register(u, pwlen, storage_ok) ==
    /\ IF pwlen < 8 \/ pwlen > 72
       THEN /\ resp' = Reply("register", u, 0, 0, 400, "Password length")
            /\ UNCHANGED <<users, storage_used_bytes, storage_quota_bytes, folders, files, counted>>
       ELSE IF u \in users
       THEN /\ resp' = Reply("register", u, 0, 0, 400, "Email or phone already registered")
            /\ UNCHANGED <<users, storage_used_bytes, storage_quota_bytes, folders, files, counted>>
       ELSE LET newFolders ==
                    folders \o [i \in 1..Len(DefaultFolders) |->
                                  [owner_user_id |-> u, parent_folder_id |-> 0,
                                   name |-> DefaultFolders[i], present |-> TRUE]]
            IN  /\ users' = users \cup {u}
                /\ storage_used_bytes' = [storage_used_bytes EXCEPT ![u] = 0]
                /\ storage_quota_bytes' = [storage_quota_bytes EXCEPT ![u] = DefaultQuota]
                /\ folders' = newFolders
                /\ IF storage_ok
                   THEN /\ files' = Append(files,
                                NewFile(u, PersonalFolder(newFolders, u), "Welcome.txt",
                                        WelcomeSize, "uploaded", now))
                        /\ counted' = Append(counted, FALSE)
                   ELSE UNCHANGED <<files, counted>>
                /\ resp' = Reply("register", u, 0, 0, 201, "")
    /\ Tick
    /\ UNCHANGED <<shares, schema, views>>

\* POST /files/upload/init
InitUpload(u, filename, size, folder_id) ==
    /\ u \in users
    /\ IF size <= 0
       THEN /\ resp' = Reply("init_upload", u, 0, size, 400, "Invalid file size")
            /\ UNCHANGED <<files, counted>>
       ELSE IF QuotaExceeded(storage_used_bytes[u], size, storage_quota_bytes[u])
       THEN /\ resp' = Reply("init_upload", u, 0, size, 400, "Storage quota exceeded")
            /\ UNCHANGED <<files, counted>>
       ELSE IF size > MaxFileSize
       THEN /\ resp' = Reply("init_upload", u, 0, size, 400, "File size exceeds limit")
            /\ UNCHANGED <<files, counted>>
       ELSE /\ files' = Append(files, NewFile(u, folder_id, filename, size, "uploading", now))
            /\ counted' = Append(counted, FALSE)
            /\ resp' = Reply("init_upload", u, Len(files) + 1, size, 200, "")
    /\ UNCHANGED <<users, storage_used_bytes, storage_quota_bytes, folders>>
    /\ UNCHANGED <<shares, schema, views>>
    /\ Tick

\* POST /files/upload/direct.  size is the length of the uploaded body;
\* storage_ok: whether storage_service.upload_file_obj succeeds.
UploadFileDirect(u, filename, size, folder_id, is_hidden, storage_ok) ==
    /\ u \in users
    /\ IF QuotaExceeded(storage_used_bytes[u], size, storage_quota_bytes[u])
       THEN /\ resp' = Reply("upload_file_direct", u, 0, size, 400, "Storage quota exceeded")
            /\ UNCHANGED <<files, counted, storage_used_bytes, jobs>>
       ELSE IF ~storage_ok
       THEN /\ resp' = Reply("upload_file_direct", u, 0, size, 500, "Upload failed")
            /\ UNCHANGED <<files, counted, storage_used_bytes, jobs>>
       ELSE /\ files' = Append(files,
                    NewFile(u, folder_id, filename, size,
                            IF is_hidden THEN "hidden" ELSE "uploaded", now))
            /\ counted' = Append(counted, TRUE)
            /\ storage_used_bytes' =
                   [storage_used_bytes EXCEPT ![u] = Credit(storage_used_bytes[u], size)]
            /\ jobs' = Dispatched(jobs, Len(files) + 1)
            /\ resp' = Reply("upload_file_direct", u, Len(files) + 1, size, 200, "")
    /\ UNCHANGED <<users, storage_quota_bytes, folders>>
    /\ UNCHANGED <<shares, schema, sessions, rowlock>>
    /\ Tick

\* POST /files/upload/{file_id}/complete
CompleteUpload(u, file_id) ==
    /\ u \in users
    /\ LET f == FindFile(file_id, u)
       IN  IF f = 0
           THEN /\ resp' = Reply("complete_upload", u, file_id, 0, 404, "File not found")
                /\ UNCHANGED <<files, counted, storage_used_bytes, jobs>>
           ELSE /\ files' = [files EXCEPT ![f].status = "uploaded"]
                /\ counted' = [counted EXCEPT ![f] = TRUE]
                /\ storage_used_bytes' = [storage_used_bytes EXCEPT
                       ![u] = Credit(storage_used_bytes[u], files[f].size_bytes)]
                /\ jobs' = Dispatched(jobs, f)
                /\ resp' = Reply("complete_upload", u, file_id, files[f].size_bytes, 200, "")
    /\ UNCHANGED <<users, storage_quota_bytes, folders>>
    /\ UNCHANGED <<shares, schema, sessions, rowlock>>
    /\ Tick

\* DELETE /files/{file_id}
DeleteFile(u, file_id) ==
    /\ u \in users
    /\ LET f == FindFile(file_id, u)
       IN  IF f = 0
           THEN /\ resp' = Reply("delete_file", u, file_id, 0, 404, "File not found")
                /\ UNCHANGED <<files, storage_used_bytes>>
           ELSE /\ files' = [files EXCEPT ![f].deleted_at = now]
                /\ storage_used_bytes' = [storage_used_bytes EXCEPT
                       ![u] = Debit(storage_used_bytes[u], files[f].size_bytes)]
                /\ resp' = Reply("delete_file", u, file_id, files[f].size_bytes, 200, "")
    /\ UNCHANGED <<users, storage_quota_bytes, folders, counted>>
    /\ UNCHANGED <<shares, schema, views>>
    /\ Tick

\* sizes a request declares or carries: none, small, the upload limit, the quota
Sizes == 0..DefaultQuota

InTime == now <= MaxTime

Next ==
    \/ \E u \in UserIds, pwlen \in {7, 8, 73}, ok \in BOOLEAN :
          InTime /\ Register(u, pwlen, ok)
    \/ \E u \in UserIds, size \in Sizes :
          InTime /\ InitUpload(u, "report.pdf", size, 0)
    \/ \E u \in UserIds, size \in Sizes, hid \in BOOLEAN, ok \in BOOLEAN :
          InTime /\ UploadFileDirect(u, "report.pdf", size, 0, hid, ok)
    \/ \E u \in UserIds, f \in 1..(Len(files) + 1) :
          InTime /\ CompleteUpload(u, f)
    \/ \E u \in UserIds, f \in 1..(Len(files) + 1) :
          InTime /\ DeleteFile(u, f)

Spec == Init /\ [][Next]_vars

\* ------------------------------------------------------------ share engine
\* Share.status, Share.view_count, Share.permissions column defaults
ShareDefaults ==
    [status |-> "sent", view_count |-> 0,
     permissions |-> [view |-> TRUE, download |-> TRUE, share |-> FALSE]]

\* transaction_id: unique index in the model metadata and in the migration
TransactionIdTaken(txid) ==
    \E s \in 1..Len(shares) : shares[s].transaction_id = txid

\* share_token: unique in the model metadata; the migration creates neither
\* a unique constraint nor an index on it.  NULLs never collide.
ShareTokenTaken(token) ==
    /\ schema = "metadata"
    /\ token # 0
    /\ \E s \in 1..Len(shares) : shares[s].share_token = token

Terminal == {"revoked", "failed"}

Rank(status) == CASE status = "sent" -> 0 [] status = "delivered" -> 1 [] OTHER -> 2

\* a delivery that overwrites whatever status it finds
DeliveredAlways(status) == "delivered"

\* mark_delivered: only from sent
DeliveredStatus(status) == IF status = "sent" THEN "delivered" ELSE status

\* record_view: to viewed if not already past it
ViewedStatus(status) == IF status \in {"sent", "delivered"} THEN "viewed" ELSE status

\* a revoke that any party of the Share may perform
MayRevokeParty(share, actor) ==
    actor = share.sender_user_id \/ actor = share.recipient_user_id

\* revoke: allowed by the sender only
MayRevoke(share, actor) == actor = share.sender_user_id

Expired(share, t) == share.expires_at # 0 /\ t > share.expires_at

ViewLimitReached(share) == share.max_views # 0 /\ share.view_count >= share.max_views

\* the File of the Share has been soft-deleted
FileGone(share) == files[share.file_id].deleted_at # 0

\* an access check that forgets the view limit
ViewAllowedNoLimit(share, t) ==
    /\ share.status \notin Terminal
    /\ ~Expired(share, t)
    /\ ~FileGone(share)

\* record_view is allowed only if the Share is not revoked, failed, expired
\* or at its view limit, and its File has not been deleted
ViewAllowed(share, t) ==
    /\ share.status \notin Terminal
    /\ ~Expired(share, t)
    /\ ~ViewLimitReached(share)
    /\ ~FileGone(share)

\* the row record_view writes back
Viewed(share, t) ==
    [share EXCEPT !.view_count = share.view_count + 1,
                  !.first_viewed_at = IF share.first_viewed_at = 0 THEN t
                                      ELSE share.first_viewed_at,
                  !.last_viewed_at = t,
                  !.status = ViewedStatus(share.status)]

\* the row POST /shares inserts at time t
NewShare(u, f, recipient_email, policy, txid, t) ==
    [file_id |-> f,
     sender_user_id |-> u,
     recipient_user_id |-> IF recipient_email \in users THEN recipient_email ELSE 0,
     recipient_email |-> recipient_email,
     share_type |-> policy.share_type,
     transaction_id |-> txid,
     share_token |-> policy.share_token,
     status |-> ShareDefaults.status,
     expires_at |-> policy.expires_at,
     max_views |-> policy.max_views,
     view_count |-> ShareDefaults.view_count,
     permissions |-> ShareDefaults.permissions,
     created_at |-> t,
     delivered_at |-> 0,
     first_viewed_at |-> 0,
     last_viewed_at |-> 0,
     revoked_at |-> 0,
     present |-> TRUE]

\* a send_file that charges the File's bytes to the sender a second time
SendFileCharging(u, file_id, recipient_email, policy, txid) ==
    /\ u \in users
    /\ Len(shares) < MaxShares
    /\ LET f == FindFile(file_id, u)
       IN  IF f = 0
           THEN /\ resp' = Reply("send_file", u, 0, 0, 404, "File not found")
                /\ UNCHANGED <<shares, storage_used_bytes>>
           ELSE /\ shares' = Append(shares, NewShare(u, f, recipient_email, policy, txid, now))
                /\ storage_used_bytes' = [storage_used_bytes EXCEPT
                       ![u] = Credit(storage_used_bytes[u], files[f].size_bytes)]
                /\ resp' = Reply("send_file", u, Len(shares) + 1, 0, 201, "")
    /\ UNCHANGED <<users, storage_quota_bytes, folders, files, counted, schema, views>>
    /\ Tick

\* POST /shares.  txid and token are what the id generators return; a link
\* share carries a token and may carry an expiry and a view limit.
SendFile(u, file_id, recipient_email, policy, txid) ==
    /\ u \in users
    /\ Len(shares) < MaxShares
    /\ LET f == FindFile(file_id, u)
       IN  IF f = 0
           THEN /\ resp' = Reply("send_file", u, 0, 0, 404, "File not found")
                /\ UNCHANGED shares
           ELSE IF TransactionIdTaken(txid) \/ ShareTokenTaken(policy.share_token)
           THEN /\ resp' = Reply("send_file", u, 0, 0, 500, "IntegrityError")
                /\ UNCHANGED shares
           ELSE /\ shares' = Append(shares, NewShare(u, f, recipient_email, policy, txid, now))
                /\ resp' = Reply("send_file", u, Len(shares) + 1, 0, 201, "")
    /\ UNCHANGED <<ledger, schema, views>>
    /\ Tick

\* mark_delivered(share)
MarkDelivered(s) ==
    /\ s \in 1..Len(shares)
    /\ IF shares[s].status \in Terminal
       THEN /\ resp' = Reply("mark_delivered", 0, s, 0, 409, "Conflict")
            /\ UNCHANGED shares
       ELSE /\ shares' = [shares EXCEPT
                   ![s].status = DeliveredStatus(shares[s].status),
                   ![s].delivered_at =
                       IF shares[s].status = "sent" /\ shares[s].delivered_at = 0
                       THEN now ELSE shares[s].delivered_at]
            /\ resp' = Reply("mark_delivered", 0, s, 0, 200, "")
    /\ UNCHANGED <<ledger, schema, views>>
    /\ Tick

\* a delivery failure: failed is reachable from any non-terminal state
MarkFailed(s) ==
    /\ s \in 1..Len(shares)
    /\ IF shares[s].status \in Terminal
       THEN /\ resp' = Reply("mark_failed", 0, s, 0, 409, "Conflict")
            /\ UNCHANGED shares
       ELSE /\ shares' = [shares EXCEPT ![s].status = "failed"]
            /\ resp' = Reply("mark_failed", 0, s, 0, 200, "")
    /\ UNCHANGED <<ledger, schema, views>>
    /\ Tick

\* record_view(share, viewer), as one serialized transaction
RecordView(s, viewer) ==
    /\ s \in 1..Len(shares)
    /\ IF ~ViewAllowed(shares[s], now)
       THEN /\ resp' = Reply("record_view", viewer, s, 0, 403, "Forbidden")
            /\ UNCHANGED shares
       ELSE /\ shares' = [shares EXCEPT ![s] = Viewed(shares[s], now)]
            /\ resp' = Reply("record_view", viewer, s, 0, 200, "")
    /\ UNCHANGED <<ledger, schema, views>>
    /\ Tick

\* revoke(share, actor)
Revoke(s, actor) ==
    /\ s \in 1..Len(shares)
    /\ IF ~MayRevoke(shares[s], actor)
       THEN /\ resp' = Reply("revoke", actor, s, 0, 403, "Forbidden")
            /\ UNCHANGED shares
       ELSE IF shares[s].status = "revoked"
       THEN /\ resp' = Reply("revoke", actor, s, 0, 200, "")
            /\ UNCHANGED shares
       ELSE IF shares[s].status = "failed"
       THEN /\ resp' = Reply("revoke", actor, s, 0, 409, "Conflict")
            /\ UNCHANGED shares
       ELSE /\ shares' = [shares EXCEPT ![s].status = "revoked", ![s].revoked_at = now]
            /\ resp' = Reply("revoke", actor, s, 0, 200, "")
    /\ UNCHANGED <<ledger, schema, views>>
    /\ Tick

\* the store after every user registered and got their Welcome.txt
RegisteredStore ==
    /\ users = UserIds
    /\ storage_used_bytes = [u \in UserIds |-> 0]
    /\ storage_quota_bytes = [u \in UserIds |-> DefaultQuota]
    /\ folders = [i \in 1..(MaxUsers * Len(DefaultFolders)) |->
                    [owner_user_id |-> ((i - 1) \div Len(DefaultFolders)) + 1,
                     parent_folder_id |-> 0,
                     name |-> DefaultFolders[((i - 1) % Len(DefaultFolders)) + 1],
                     present |-> TRUE]]
    /\ files = [u \in UserIds |->
                    NewFile(u, u * Len(DefaultFolders), "Welcome.txt",
                            WelcomeSize, "uploaded", u)]
    /\ counted = [u \in UserIds |-> FALSE]

InitShare ==
    /\ RegisteredStore
    /\ now = MaxUsers + 1
    /\ resp = Reply("register", MaxUsers, 0, 0, 201, "")
    /\ shares = <<>>
    /\ schema \in {"metadata", "migration"}
    /\ NoSessions

\* what a caller may ask of a new Share at time t
Policies(t) ==
    {[share_type |-> "direct", share_token |-> 0, expires_at |-> 0, max_views |-> 0]}
    \cup {[share_type |-> "link", share_token |-> k, expires_at |-> e, max_views |-> m] :
            k \in Tokens, e \in {0, t + 1}, m \in {0, MaxViews}}

\* the share engine with fresh ids: each new Share gets the next id and token,
\* and carries an expiry or a view limit, not both
FreshPolicies ==
    {q \in Policies(now) : /\ q.share_token \in {0, Len(shares) + 1}
                           /\ (q.expires_at = 0 \/ q.max_views = 0)}

InShareTime == now <= MaxShareTime

NextShare ==
    \/ \E u \in UserIds, f \in 1..Len(files) :
          \E r \in Emails \ {u}, pol \in FreshPolicies :
             InShareTime /\ SendFile(u, f, r, pol, Len(shares) + 1)
    \/ \E s \in 1..MaxShares : InShareTime /\ MarkDelivered(s)
    \/ \E s \in 1..MaxShares : InShareTime /\ MarkFailed(s)
    \/ \E s \in 1..MaxShares, v \in UserIds : InShareTime /\ RecordView(s, v)
    \/ \E s \in 1..MaxShares, a \in UserIds : InShareTime /\ Revoke(s, a)
    \/ \E u \in UserIds, f \in 1..Len(files) : InShareTime /\ DeleteFile(u, f)

SpecShare == InitShare /\ [][NextShare]_vars

\* the store layer: ids and tokens as the generators return them, collisions
\* included; the Shares carry no expiry and no view limit
StorePolicies == {q \in Policies(now) : q.expires_at = 0 /\ q.max_views = 0}

NextStore ==
    \/ \E u \in UserIds, f \in 1..Len(files) :
          \E r \in Emails \ {u}, pol \in StorePolicies, txid \in TxIds :
             InShareTime /\ SendFile(u, f, r, pol, txid)
    \/ \E s \in 1..MaxShares : InShareTime /\ MarkDelivered(s)
    \/ \E s \in 1..MaxShares, v \in UserIds : InShareTime /\ RecordView(s, v)
    \/ \E s \in 1..MaxShares, a \in UserIds : InShareTime /\ Revoke(s, a)

SpecStore == InitShare /\ [][NextStore]_vars

\* --------------------------------------------------- concurrent record_view
\* a SELECT that does not wait for the row lock
LockRowSkipped(v) == TRUE

\* SELECT ... FOR UPDATE: waits while another transaction holds the row
LockRow(v) == rowlock = 0

\* a record_view transaction begins: it locks the Share's row and reads it
ViewBegin(v, s) ==
    /\ sessions[v].pc = "idle"
    /\ s \in 1..Len(shares)
    /\ LockRow(v)
    /\ rowlock' = v
    /\ sessions' = [sessions EXCEPT ![v] = [pc |-> "locked", share |-> s, seen |-> shares[s]]]
    /\ UNCHANGED <<ledger, shares, schema, jobs, now, resp>>

\* it writes the row it computed from what it read, commits and so releases
\* the lock
ViewCommit(v) ==
    /\ sessions[v].pc = "locked"
    /\ LET s == sessions[v].share
           row == sessions[v].seen
       IN  IF ~ViewAllowed(row, now)
           THEN /\ resp' = Reply("record_view", v, s, 0, 403, "Forbidden")
                /\ UNCHANGED shares
           ELSE /\ shares' = [shares EXCEPT ![s] = Viewed(row, now)]
                /\ resp' = Reply("record_view", v, s, 0, 200, "")
    /\ sessions' = [sessions EXCEPT ![v].pc = "done"]
    /\ rowlock' = IF rowlock = v THEN 0 ELSE rowlock
    /\ UNCHANGED <<ledger, schema, jobs>>
    /\ Tick

\* a fresh Share without expiry and view limit, just sent
InitViews ==
    /\ RegisteredStore
    /\ schema \in {"metadata", "migration"}
    /\ NoSessions
    /\ now = MaxUsers + 2
    /\ \E u \in UserIds :
         \E r \in Emails \ {u},
            pol \in {q \in Policies(0) : q.expires_at = 0 /\ q.max_views = 0} :
            /\ shares = <<NewShare(u, u, r, pol, 1, MaxUsers + 1)>>
            /\ resp = Reply("send_file", u, 1, 0, 201, "")

NextViews ==
    \/ \E v \in Viewers : ViewBegin(v, 1)
    \/ \E v \in Viewers : ViewCommit(v)

SpecViews == InitViews /\ [][NextViews]_vars

\* ------------------------------------------------- folders and the share API
\* select(Folder).where(Folder.id == folder_id, Folder.owner_user_id ==
\* current_user.id).scalar_one_or_none(): the id of the row, 0 for None
FindFolder(folder_id, u) ==
    IF /\ folder_id \in 1..Len(folders)
       /\ folders[folder_id].present
       /\ folders[folder_id].owner_user_id = u
    THEN folder_id ELSE 0

\* Folder.files, cascade="all, delete-orphan": the File rows deleted with a folder
FolderFiles(d) ==
    {f \in 1..Len(files) : files[f].present /\ files[f].folder_id = d}

\* File.shares, cascade="all, delete-orphan" (and shares.file_id ON DELETE
\* CASCADE): the Share rows deleted with a set of File rows
FileShares(F) ==
    {s \in 1..Len(shares) : shares[s].present /\ shares[s].file_id \in F}

\* a create_folder that makes the new folder its own parent
NewFolderSelfParent(u, name, parent_folder_id) ==
    [owner_user_id |-> u, parent_folder_id |-> Len(folders) + 1, name |-> name,
     present |-> TRUE]

\* Folder(...): the row create_folder inserts
NewFolder(u, name, parent_folder_id) ==
    [owner_user_id |-> u, parent_folder_id |-> parent_folder_id, name |-> name,
     present |-> TRUE]

\* ForeignKey("folders.id") of parent_folder_id: NULL or the id of a row
ParentExists(parent_folder_id) ==
    \/ parent_folder_id = 0
    \/ parent_folder_id \in 1..Len(folders) /\ folders[parent_folder_id].present

\* POST /folders: parent_folder_id is stored as the request gives it; an id
\* that is no row of table folders fails the foreign key at commit
CreateFolder(u, name, parent_folder_id) ==
    /\ u \in users
    /\ IF ~ParentExists(parent_folder_id)
       THEN /\ resp' = Reply("create_folder", u, 0, 0, 500, "IntegrityError")
            /\ UNCHANGED folders
       ELSE /\ folders' = Append(folders, NewFolder(u, name, parent_folder_id))
            /\ resp' = Reply("create_folder", u, Len(folders) + 1, 0, 201, "")
    /\ UNCHANGED <<users, storage_used_bytes, storage_quota_bytes, files, counted>>
    /\ UNCHANGED <<shares, schema, views>>
    /\ Tick

\* the backref of Folder.subfolders has no delete cascade: the ORM sets
\* parent_folder_id of the rows that name the deleted folder d to NULL
Detached(folder, d) ==
    IF folder.present /\ folder.parent_folder_id = d
    THEN [folder EXCEPT !.parent_folder_id = 0] ELSE folder

\* DELETE /folders/{folder_id}: db.delete(folder) deletes the folder's row, and
\* by cascade the rows of its Files and the rows of their Shares; folders
\* below it lose their parent.  The ledger is not touched.
DeleteFolder(u, folder_id) ==
    /\ u \in users
    /\ LET d == FindFolder(folder_id, u)
       IN  IF d = 0
           THEN /\ resp' = Reply("delete_folder", u, folder_id, 0, 404, "Folder not found")
                /\ UNCHANGED <<folders, files, shares>>
           ELSE /\ folders' = [i \in 1..Len(folders) |->
                                 IF i = d THEN [folders[i] EXCEPT !.present = FALSE]
                                 ELSE Detached(folders[i], d)]
                /\ files' = [f \in 1..Len(files) |->
                               IF f \in FolderFiles(d)
                               THEN [files[f] EXCEPT !.present = FALSE] ELSE files[f]]
                /\ shares' = [s \in 1..Len(shares) |->
                               IF s \in FileShares(FolderFiles(d))
                               THEN [shares[s] EXCEPT !.present = FALSE] ELSE shares[s]]
                /\ resp' = Reply("delete_folder", u, folder_id, 0, 200, "")
    /\ UNCHANGED <<users, storage_used_bytes, storage_quota_bytes, counted>>
    /\ UNCHANGED <<schema, views>>
    /\ Tick

\* the rows of table shares
PresentShares == {s \in 1..Len(shares) : shares[s].present}

\* a join that drops the Shares of soft-deleted Files
JoinLiveFile(share) ==
    /\ share.file_id \in 1..Len(files)
    /\ files[share.file_id].present
    /\ files[share.file_id].deleted_at = 0

\* .join(File, Share.file_id == File.id): the Share's File row exists
JoinFile(share) ==
    /\ share.file_id \in 1..Len(files)
    /\ files[share.file_id].present

\* a sent list that does not look at the sender
SentByAnyone(share, u) == TRUE

\* Share.sender_user_id == current_user.id
SentBy(share, u) == share.sender_user_id = u

\* or_(Share.recipient_user_id == current_user.id,
\*     Share.recipient_email == current_user.email); NULL equals nothing
ReceivedBy(share, u) ==
    share.recipient_user_id = u \/ share.recipient_email = u

\* .order_by(created_at.desc()) over the rows S of a table
RECURSIVE OrderByCreatedDesc(_, _)
OrderByCreatedDesc(table, S) ==
    IF S = {} THEN <<>>
    ELSE LET m == CHOOSE i \in S : \A j \in S : table[j].created_at <= table[i].created_at
         IN  <<m>> \o OrderByCreatedDesc(table, S \ {m})

\* the ShareResponse dict of a joined (share, file) row
ShareResponse(s) ==
    [id |-> s,
     transaction_id |-> shares[s].transaction_id,
     file_id |-> shares[s].file_id,
     filename |-> files[shares[s].file_id].filename,
     size_bytes |-> files[shares[s].file_id].size_bytes,
     status |-> shares[s].status,
     created_at |-> shares[s].created_at]

ShareList(S) ==
    LET order == OrderByCreatedDesc(shares, S)
    IN  [i \in 1..Len(order) |-> ShareResponse(order[i])]

\* the rows get_sent_transactions selects, as the list it returns
SentListing(u) ==
    ShareList({s \in PresentShares : JoinFile(shares[s]) /\ SentBy(shares[s], u)})

\* the rows get_received_transactions selects, as the list it returns
ReceivedListing(u) ==
    ShareList({s \in PresentShares : JoinFile(shares[s]) /\ ReceivedBy(shares[s], u)})

\* GET /shares/sent
GetSentTransactions(u) ==
    /\ u \in users
    /\ resp' = ReplyBody("get_sent_transactions", u, 0, 200, "", SentListing(u))
    /\ UNCHANGED <<ledger, shares, schema, views>>
    /\ Tick

\* GET /shares/received
GetReceivedTransactions(u) ==
    /\ u \in users
    /\ resp' = ReplyBody("get_received_transactions", u, 0, 200, "", ReceivedListing(u))
    /\ UNCHANGED <<ledger, shares, schema, views>>
    /\ Tick

\* a lookup that lets every caller see every transaction
IsPartyAnyone(share, u) == TRUE

\* or_(Share.sender_user_id == current_user.id,
\*     Share.recipient_user_id == current_user.id)
IsParty(share, u) == share.sender_user_id = u \/ share.recipient_user_id = u

\* select(Share, File).join(File, ...).where(Share.transaction_id ==
\* transaction_id, or_(...)) and result.first(): the Share's id, 0 for no row
FindTransaction(txid, u) ==
    LET rows == {s \in PresentShares : /\ JoinFile(shares[s])
                                       /\ shares[s].transaction_id = txid
                                       /\ IsParty(shares[s], u)}
    IN  IF rows = {} THEN 0 ELSE CHOOSE s \in rows : TRUE

\* GET /shares/{transaction_id}
GetTransactionDetails(u, txid) ==
    /\ u \in users
    /\ LET s == FindTransaction(txid, u)
       IN  IF s = 0
           THEN resp' = Reply("get_transaction_details", u, txid, 0, 404,
                              "Transaction not found")
           ELSE resp' = ReplyBody("get_transaction_details", u, txid, 200, "",
                            [id |-> s,
                             transaction_id |-> shares[s].transaction_id,
                             file |-> [id |-> shares[s].file_id,
                                       filename |-> files[shares[s].file_id].filename,
                                       size_bytes |-> files[shares[s].file_id].size_bytes],
                             recipient |-> [email |-> shares[s].recipient_email],
                             status |-> shares[s].status,
                             created_at |-> shares[s].created_at,
                             delivered_at |-> shares[s].delivered_at,
                             viewed_at |-> shares[s].first_viewed_at])
    /\ UNCHANGED <<ledger, shares, schema, views>>
    /\ Tick

\* the names bound in module app/api/v1/shares.py by its import statements
ShareModuleNames ==
    {"APIRouter", "Depends", "HTTPException", "AsyncSession", "select", "or_",
     "List", "datetime", "get_db", "User", "File", "Folder", "Share",
     "get_current_user", "generate_transaction_id", "BaseModel", "EmailStr"}

\* hashlib.sha256(signature_base.encode()).hexdigest(): a digest stands for
\* the string it was computed from (sha256 taken as collision free)
Signature(share, file) ==
    <<share.transaction_id, share.created_at, share.sender_user_id,
      share.recipient_user_id, file.checksum_sha256>>

\* the number of transaction ids that differ in their last 8 characters
ReceiptIdSpace == 100000000

\* f"RCPT-{share.transaction_id[-8:]}"
ReceiptId(txid) == txid % ReceiptIdSpace

\* "SUCCESS" if share.status in ["sent", "delivered", "viewed"] else share.status
ReceiptStatus(status) ==
    IF status \in {"sent", "delivered", "viewed"} THEN "SUCCESS" ELSE status

\* the receipt dict
Receipt(share, file) ==
    [receipt_id |-> ReceiptId(share.transaction_id),
     transaction_id |-> share.transaction_id,
     timestamp |-> share.created_at,
     status |-> ReceiptStatus(share.status),
     item |-> [name |-> file.filename, size |-> file.size_bytes,
               checksum |-> file.checksum_sha256],
     verification_signature |-> Signature(share, file)]

\* a receipt endpoint that also counts the request as a view of the Share
GetTransactionReceiptCounting(u, txid) ==
    /\ u \in users
    /\ LET s == FindTransaction(txid, u)
       IN  IF s = 0
           THEN /\ resp' = Reply("get_transaction_receipt", u, txid, 0, 404,
                                 "Transaction not found")
                /\ UNCHANGED shares
           ELSE /\ resp' = Reply("get_transaction_receipt", u, txid, 0, 500,
                                 "Internal Server Error")
                /\ shares' = [shares EXCEPT ![s] = Viewed(shares[s], now)]
    /\ UNCHANGED <<ledger, schema, views>>
    /\ Tick

\* GET /shares/{transaction_id}/receipt.  Line 212 evaluates the name hashlib,
\* which the module never imports: for every row found the handler raises
\* NameError, the session is rolled back and the caller gets a 500.
GetTransactionReceipt(u, txid) ==
    /\ u \in users
    /\ LET s == FindTransaction(txid, u)
       IN  IF s = 0
           THEN resp' = Reply("get_transaction_receipt", u, txid, 0, 404,
                              "Transaction not found")
           ELSE IF "hashlib" \notin ShareModuleNames
           THEN resp' = Reply("get_transaction_receipt", u, txid, 0, 500,
                              "Internal Server Error")
           ELSE resp' = ReplyBody("get_transaction_receipt", u, txid, 200, "",
                            Receipt(shares[s], files[shares[s].file_id]))
    /\ UNCHANGED <<ledger, shares, schema, views>>
    /\ Tick

\* ------------------------------------------------------------ file listings
\* file names and search strings of the requests
Filenames == {"Welcome.txt", "report.pdf"}
Queries == {"WEL", "pdf", "xyz", "e"}

\* File.filename.ilike(f"%{q}%"): case-insensitive substring
ILike(filename, q) ==
    <<filename, q>> \in {<<"Welcome.txt", "WEL">>, <<"Welcome.txt", "e">>,
                        <<"report.pdf", "pdf">>, <<"report.pdf", "e">>}

\* a listing filter that forgets the soft delete
NotDeletedDropped(file) == TRUE

\* File.deleted_at.is_(None)
NotDeleted(file) == file.deleted_at = 0

FileResponse(f) ==
    [id |-> f, filename |-> files[f].filename, size_bytes |-> files[f].size_bytes,
     folder_id |-> files[f].folder_id, created_at |-> files[f].created_at]

FileList(S) ==
    LET order == OrderByCreatedDesc(files, S)
    IN  [i \in 1..Len(order) |-> FileResponse(order[i])]

\* GET /files: folder_id and search are optional ("" and 0 for absent); the
\* page (limit 50) holds every row of the stores explored here
GetFiles(u, folder_id, search) ==
    /\ u \in users
    /\ resp' = ReplyBody("get_files", u, folder_id, 200, "",
                   FileList({f \in 1..Len(files) :
                                /\ files[f].present
                                /\ files[f].owner_user_id = u
                                /\ NotDeleted(files[f])
                                /\ files[f].status # "hidden"
                                /\ (folder_id # 0 => files[f].folder_id = folder_id)
                                /\ (search # "" => ILike(files[f].filename, search))}))
    /\ UNCHANGED <<ledger, shares, schema, views>>
    /\ Tick

\* GET /search: q has at least 2 characters; File.ocr_text is NULL in
\* every row (no code writes it), so only the filename can match
SearchFiles(u, q, folder_id) ==
    /\ u \in users
    /\ IF Len(q) < 2
       THEN resp' = Reply("search_files", u, folder_id, 0, 422, "Validation error")
       ELSE resp' = ReplyBody("search_files", u, folder_id, 200, "",
                       FileList({f \in 1..Len(files) :
                                    /\ files[f].present
                                    /\ files[f].owner_user_id = u
                                    /\ NotDeleted(files[f])
                                    /\ ILike(files[f].filename, q)
                                    /\ (folder_id # 0 => files[f].folder_id = folder_id)}))
    /\ UNCHANGED <<ledger, shares, schema, views>>
    /\ Tick

\* func.count(File.id) over the outer join on
\* (File.folder_id == Folder.id) & (File.deleted_at.is_(None))
FileCount(d) ==
    Cardinality({f \in 1..Len(files) :
                    files[f].present /\ files[f].folder_id = d /\ NotDeleted(files[f])})

\* GET /folders: the caller's folders, each with its file_count
GetFolders(u) ==
    /\ u \in users
    /\ resp' = ReplyBody("get_folders", u, 0, 200, "",
                   LET mine == {d \in 1..Len(folders) :
                                   folders[d].present /\ folders[d].owner_user_id = u}
                   IN  [d \in mine |-> [name |-> folders[d].name,
                                        file_count |-> FileCount(d)]])
    /\ UNCHANGED <<ledger, shares, schema, views>>
    /\ Tick

\* --------------------------------------- the API as a whole, from an empty store
InApiTime == now <= MaxApiTime

\* the folders the requests name: the first and the last default folder
NamedFolders ==
    {d \in 1..Len(folders) : folders[d].name \in {"Bills", "Personal"}}

DirectPolicies == {q \in Policies(now) : q.share_type = "direct"}

NextApi ==
    \/ \E u \in UserIds, ok \in BOOLEAN : InApiTime /\ Register(u, 8, ok)
    \/ \E u \in UserIds : InApiTime /\ InitUpload(u, "report.pdf", 1, 0)
    \/ \E u \in UserIds, d \in {0} \cup NamedFolders :
          InApiTime /\ UploadFileDirect(u, "report.pdf", 1, d, FALSE, TRUE)
    \/ \E u \in UserIds, f \in 1..Len(files) : InApiTime /\ CompleteUpload(u, f)
    \/ \E u \in UserIds, f \in 1..Len(files) : InApiTime /\ DeleteFile(u, f)
    \/ \E u \in UserIds, d \in NamedFolders : InApiTime /\ DeleteFolder(u, d)
    \/ \E u \in UserIds, f \in 1..Len(files) :
          \E r \in Emails \ {u}, pol \in DirectPolicies :
             InApiTime /\ SendFile(u, f, r, pol, Len(shares) + 1)
    \/ \E s \in PresentShares : InApiTime /\ MarkDelivered(s)
    \/ \E s \in PresentShares : InApiTime /\ MarkFailed(s)
    \/ \E s \in PresentShares, v \in UserIds : InApiTime /\ RecordView(s, v)
    \/ \E s \in PresentShares, a \in UserIds : InApiTime /\ Revoke(s, a)
    \/ \E u \in UserIds : InApiTime /\ GetSentTransactions(u)
    \/ \E u \in UserIds : InApiTime /\ GetReceivedTransactions(u)
    \/ \E u \in UserIds, txid \in TxIds : InApiTime /\ GetTransactionDetails(u, txid)
    \/ \E u \in UserIds, txid \in TxIds : InApiTime /\ GetTransactionReceipt(u, txid)

SpecApi == Init /\ [][NextApi]_vars

\* the file registry and its listings; a request names no folder or the
\* caller's Personal folder
NextFiles ==
    \/ \E u \in UserIds, ok \in BOOLEAN : InTime /\ Register(u, 8, ok)
    \/ \E u \in UserIds, name \in Filenames, hid \in BOOLEAN :
          \E d \in {0, PersonalFolder(folders, u)} :
             InTime /\ UploadFileDirect(u, name, 1, d, hid, TRUE)
    \/ \E u \in UserIds, f \in 1..Len(files) : InTime /\ DeleteFile(u, f)
    \/ \E u \in UserIds : InTime /\ DeleteFolder(u, PersonalFolder(folders, u))
    \/ \E u \in UserIds, q \in {""} \cup Queries :
          \E d \in {0, PersonalFolder(folders, u)} : InTime /\ GetFiles(u, d, q)
    \/ \E u \in UserIds, q \in Queries :
          \E d \in {0, PersonalFolder(folders, u)} : InTime /\ SearchFiles(u, q, d)
    \/ \E u \in UserIds : InTime /\ GetFolders(u)

SpecFiles == Init /\ [][NextFiles]_vars

\* ---------------------------------------------------------- background tasks
\* a task body without its try/except: the exception leaves the task
TaskEndRaising(fails) == IF fails THEN "raised" ELSE "done"

\* try: ... except Exception as e: logger.error(...): a failure is logged and
\* the task returns
TaskEnd(fails) == IF fails THEN "logged" ELSE "done"

\* the worker takes job j off the queue and runs it once
Ran(j, state) == [jobs EXCEPT ![j].state = state, ![j].runs = jobs[j].runs + 1]

\* process_file_ocr(file_id, storage_key, mime_type).  fails: the download
\* or the text extraction raises.  The UPDATE of the File is commented out:
\* the task writes nothing.
ProcessFileOcr(j, fails) ==
    /\ j \in 1..Len(jobs)
    /\ jobs[j].task = "process_file_ocr"
    /\ jobs[j].state = "queued"
    /\ jobs' = Ran(j, TaskEnd(fails))
    /\ UNCHANGED <<ledger, shares, schema, sessions, rowlock, now, resp>>

\* generate_thumbnail(file_id, storage_key, mime_type).  supported: the mime
\* type is an image or a PDF; fails: download, conversion or upload of the
\* thumbnail raises.  On success it runs UPDATE files SET thumbnail_url
\* WHERE id = file_id in a session of its own.
GenerateThumbnail(j, supported, fails) ==
    /\ j \in 1..Len(jobs)
    /\ jobs[j].task = "generate_thumbnail"
    /\ jobs[j].state = "queued"
    /\ jobs' = Ran(j, IF supported THEN TaskEnd(fails) ELSE "done")
    /\ IF supported /\ ~fails /\ files[jobs[j].file_id].present
       THEN files' = [files EXCEPT ![jobs[j].file_id].thumbnail_url = 1]
       ELSE UNCHANGED files
    /\ UNCHANGED <<users, storage_used_bytes, storage_quota_bytes, folders, counted>>
    /\ UNCHANGED <<shares, schema, sessions, rowlock, now, resp>>

\* uploads and the tasks they dispatch
NextTasks ==
    \/ \E u \in UserIds : InTime /\ Register(u, 8, FALSE)
    \/ \E u \in UserIds : InTime /\ InitUpload(u, "report.pdf", 1, 0)
    \/ \E u \in UserIds, ok \in BOOLEAN :
          InTime /\ UploadFileDirect(u, "report.pdf", 1, 0, FALSE, ok)
    \/ \E u \in UserIds, f \in 1..(Len(files) + 1) : InTime /\ CompleteUpload(u, f)
    \/ \E j \in 1..Len(jobs), fails \in BOOLEAN : ProcessFileOcr(j, fails)
    \/ \E j \in 1..Len(jobs), supported \in BOOLEAN, fails \in BOOLEAN :
          GenerateThumbnail(j, supported, fails)

SpecTasks == Init /\ [][NextTasks]_vars

\* ------------------------------------------- concurrent quota adjustments
\* get_current_user: the request's own session SELECTs the caller's row; the
\* handler later computes from the storage_used_bytes it loaded here.  No
\* with_for_update, and the engine sets no isolation level (READ COMMITTED).
QuotaBegin(v, op, u, file_id, size) ==
    /\ sessions[v].pc = "idle"
    /\ u \in users
    /\ sessions' = [sessions EXCEPT ![v] =
           [pc |-> "read", share |-> 0,
            seen |-> [op |-> op, user |-> u, file |-> file_id, size |-> size,
                      used |-> storage_used_bytes[u], delta |-> 0]]]
    /\ UNCHANGED <<ledger, shares, schema, rowlock, jobs, now, resp>>

\* the rest of the handler up to db.commit(): the caller's attribute was
\* set in Python (+=, -=) from the value loaded at the start, so the flush
\* is UPDATE users SET storage_used_bytes = <that value +/- size>
QuotaCommit(v) ==
    /\ sessions[v].pc = "read"
    /\ LET r == sessions[v].seen
           u == r.user
           f == FindFile(r.file, u)
           Done(delta) == sessions' = [sessions EXCEPT ![v].pc = "done",
                                                       ![v].seen.delta = delta]
       IN  IF r.op = "upload_file_direct"
           THEN IF QuotaExceeded(r.used, r.size, storage_quota_bytes[u])
                THEN /\ resp' = Reply(r.op, u, 0, r.size, 400, "Storage quota exceeded")
                     /\ Done(0)
                     /\ UNCHANGED <<files, counted, storage_used_bytes, jobs>>
                ELSE /\ files' = Append(files,
                             NewFile(u, 0, "report.pdf", r.size, "uploaded", now))
                     /\ counted' = Append(counted, TRUE)
                     /\ storage_used_bytes' =
                            [storage_used_bytes EXCEPT ![u] = Credit(r.used, r.size)]
                     /\ jobs' = Dispatched(jobs, Len(files) + 1)
                     /\ Done(r.size)
                     /\ resp' = Reply(r.op, u, Len(files) + 1, r.size, 200, "")
           ELSE IF f = 0
           THEN /\ resp' = Reply(r.op, u, r.file, 0, 404, "File not found")
                /\ Done(0)
                /\ UNCHANGED <<files, counted, storage_used_bytes, jobs>>
           ELSE IF r.op = "complete_upload"
           THEN /\ files' = [files EXCEPT ![f].status = "uploaded"]
                /\ counted' = [counted EXCEPT ![f] = TRUE]
                /\ storage_used_bytes' = [storage_used_bytes EXCEPT
                       ![u] = Credit(r.used, files[f].size_bytes)]
                /\ jobs' = Dispatched(jobs, f)
                /\ Done(files[f].size_bytes)
                /\ resp' = Reply(r.op, u, r.file, files[f].size_bytes, 200, "")
           ELSE /\ files' = [files EXCEPT ![f].deleted_at = now]
                /\ storage_used_bytes' = [storage_used_bytes EXCEPT
                       ![u] = Debit(r.used, files[f].size_bytes)]
                /\ Done(0 - files[f].size_bytes)
                /\ resp' = Reply(r.op, u, r.file, files[f].size_bytes, 200, "")
                /\ UNCHANGED <<counted, jobs>>
    /\ UNCHANGED <<users, storage_quota_bytes, folders, shares, schema, rowlock>>
    /\ Tick

\* every user registered; no request is in flight
InitRace ==
    /\ RegisteredStore
    /\ now = MaxUsers + 1
    /\ resp = Reply("register", MaxUsers, 0, 0, 201, "")
    /\ shares = <<>>
    /\ schema = "metadata"
    /\ NoSessions

QuotaOps == {"upload_file_direct", "complete_upload", "delete_file"}

NextRace ==
    \/ \E v \in Viewers, op \in QuotaOps, u \in UserIds, f \in 1..MaxUsers :
          QuotaBegin(v, op, u, IF op = "upload_file_direct" THEN 0 ELSE f, 1)
    \/ \E v \in Viewers : QuotaCommit(v)

SpecRace == InitRace /\ [][NextRace]_vars

\* --------------------------------------------------- transaction boundaries
\* GET /files/{file_id}/download: looks the File up by id and owner and
\* answers with a presigned URL; it writes nothing
GetDownloadUrl(u, file_id) ==
    /\ u \in users
    /\ resp' = IF FindFile(file_id, u) = 0
               THEN Reply("get_download_url", u, file_id, 0, 404, "File not found")
               ELSE Reply("get_download_url", u, file_id, 0, 200, "")
    /\ UNCHANGED <<ledger, shares, schema, views>>
    /\ Tick

\* register up to its first db.commit(): the checks, the user row and the
\* default folders.  The request is then still running.
RegisterBegin(u, pwlen) ==
    /\ sessions[u].pc = "idle"
    /\ IF pwlen < 8 \/ pwlen > 72
       THEN /\ resp' = Reply("register", u, 0, 0, 400, "Password length")
            /\ UNCHANGED <<users, storage_used_bytes, storage_quota_bytes, folders, sessions>>
            /\ Tick
       ELSE IF u \in users
       THEN /\ resp' = Reply("register", u, 0, 0, 400, "Email or phone already registered")
            /\ UNCHANGED <<users, storage_used_bytes, storage_quota_bytes, folders, sessions>>
            /\ Tick
       ELSE /\ users' = users \cup {u}
            /\ storage_used_bytes' = [storage_used_bytes EXCEPT ![u] = 0]
            /\ storage_quota_bytes' = [storage_quota_bytes EXCEPT ![u] = DefaultQuota]
            /\ folders' = folders \o [i \in 1..Len(DefaultFolders) |->
                                        [owner_user_id |-> u, parent_folder_id |-> 0,
                                         name |-> DefaultFolders[i], present |-> TRUE]]
            /\ sessions' = [sessions EXCEPT ![u].pc = "committed"]
            /\ UNCHANGED <<now, resp>>
    /\ UNCHANGED <<files, counted, shares, schema, rowlock, jobs>>

\* the rest of register: the try block that stores Welcome.txt and commits
\* a second time, its except that only prints, and the 201
RegisterWelcome(u, storage_ok) ==
    /\ sessions[u].pc = "committed"
    /\ LET p == PersonalFolder(folders, u)
           personal_folder_id == IF p # 0 /\ folders[p].present THEN p ELSE 0
       IN  IF storage_ok
           THEN /\ files' = Append(files,
                        NewFile(u, personal_folder_id, "Welcome.txt",
                                WelcomeSize, "uploaded", now))
                /\ counted' = Append(counted, FALSE)
           ELSE UNCHANGED <<files, counted>>
    /\ resp' = Reply("register", u, 0, 0, 201, "")
    /\ sessions' = [sessions EXCEPT ![u].pc = "idle"]
    /\ UNCHANGED <<users, storage_used_bytes, storage_quota_bytes, folders>>
    /\ UNCHANGED <<shares, schema, rowlock, jobs>>
    /\ Tick

\* the requests with their commits
NextCommit ==
    \/ \E u \in UserIds, pwlen \in {7, 8} : InTime /\ RegisterBegin(u, pwlen)
    \/ \E u \in UserIds, ok \in BOOLEAN : InTime /\ RegisterWelcome(u, ok)
    \/ \E u \in UserIds, size \in Sizes : InTime /\ InitUpload(u, "report.pdf", size, 0)
    \/ \E u \in UserIds, f \in 1..(Len(files) + 1) : InTime /\ CompleteUpload(u, f)
    \/ \E u \in UserIds, f \in 1..(Len(files) + 1) : InTime /\ DeleteFile(u, f)
    \/ \E u \in UserIds, f \in 1..(Len(files) + 1) : InTime /\ GetDownloadUrl(u, f)
    \/ \E u \in UserIds, d \in NamedFolders : InTime /\ DeleteFolder(u, d)

SpecCommit == Init /\ [][NextCommit]_vars

\* the folder tree
NextFolders ==
    \/ \E u \in UserIds, ok \in BOOLEAN : InTime /\ Register(u, 8, ok)
    \/ \E u \in UserIds, p \in 0..Len(folders) : InTime /\ CreateFolder(u, "Projects", p)
    \/ \E u \in UserIds, d \in 1..Len(folders) : InTime /\ DeleteFolder(u, d)

SpecFolders == Init /\ [][NextFolders]_vars

\* ----------------------------------------------------------------- claims
UploadOps == {"upload_file_direct", "complete_upload"}

\* C1: in every committed state every user satisfies
\* 0 <= storage_used_bytes <= storage_quota_bytes.
C1_QuotaInvariant ==
    \A u \in users :
        0 <= storage_used_bytes[u] /\ storage_used_bytes[u] <= storage_quota_bytes[u]

\* C2: delete_file subtracts a File's size_bytes from the owner's ledger only
\* when the size was added before and the File is not yet soft-deleted; a
\* delete of an already deleted File or of one never counted changes nothing.
C2_DeleteOnce ==
    [][(resp'.op = "delete_file" /\ resp'.code = 200) =>
         LET f == resp'.target
             u == resp'.user
         IN  storage_used_bytes'[u] =
                 IF files[f].deleted_at = 0 /\ counted[f]
                 THEN storage_used_bytes[u] - files[f].size_bytes
                 ELSE storage_used_bytes[u]]_vars

\* C3: in every committed state a File has a status other than uploading
\* if and only if its size_bytes has been added to the owner's ledger.
C3_CountedIffUploaded ==
    \A f \in 1..Len(files) : (files[f].status # "uploading") <=> counted[f]

\* C4: an upload of size S by a user with used U and quota Q where U+S > Q
\* is rejected with the quota-exceeded error, creates no File and leaves
\* storage_used_bytes as it was.
C4_OverQuotaRejected ==
    [][(/\ resp'.op \in {"init_upload", "upload_file_direct"}
        /\ storage_used_bytes[resp'.user] + resp'.size > storage_quota_bytes[resp'.user])
       => (/\ resp'.code = 400
           /\ resp'.detail = "Storage quota exceeded"
           /\ files' = files
           /\ storage_used_bytes' = storage_used_bytes)]_vars

\* C5: a successful upload of a File of size S (complete_upload or
\* upload_file_direct) takes storage_used_bytes from U to U+S, and a
\* delete_file of that File as the next request takes it back to U.
C5_RoundTrip ==
    [][/\ (resp'.op \in UploadOps /\ resp'.code = 200) =>
            /\ resp'.size = files'[resp'.target].size_bytes
            /\ storage_used_bytes'[resp'.user] = storage_used_bytes[resp'.user] + resp'.size
       /\ (/\ resp.op \in UploadOps /\ resp.code = 200
           /\ resp'.op = "delete_file" /\ resp'.code = 200
           /\ resp'.user = resp.user /\ resp'.target = resp.target) =>
            storage_used_bytes'[resp.user] = storage_used_bytes[resp.user] - resp.size]_vars

\* three requests were handled: register (Welcome.txt not stored), a direct
\* upload of a non-empty File, and the delete of that File; the ledger is
\* back at its starting value
C5_Witness ==
    /\ now = 4 /\ Len(files) = 1
    /\ resp.op = "delete_file" /\ resp.code = 200 /\ resp.target = 1
    /\ counted[1] /\ files[1].size_bytes > 0 /\ files[1].deleted_at # 0
    /\ storage_used_bytes[resp.user] = 0


\* C6: a Share's status only advances along sent -> delivered -> viewed or
\* moves to revoked or failed; revoked and failed never change again, and no
\* step moves a status backward.
Advances(a, b) ==
    \/ a = b
    \/ a \notin Terminal /\ (b \in Terminal \/ Rank(b) > Rank(a))

C6_StatusMonotone ==
    [][/\ Len(shares') >= Len(shares)
       /\ \A s \in 1..Len(shares) : Advances(shares[s].status, shares'[s].status)]_vars

\* a Share that was delivered, then viewed, then revoked
C6_Witness ==
    \E s \in 1..Len(shares) :
        /\ shares[s].status = "revoked"
        /\ shares[s].delivered_at # 0
        /\ shares[s].first_viewed_at > shares[s].delivered_at
        /\ shares[s].revoked_at > shares[s].first_viewed_at

\* C7: revoke is refused for every actor but the sender and then changes
\* nothing; by the sender it sets status = revoked and revoked_at from any
\* non-terminal state; on a revoked Share it succeeds and changes nothing.
C7_Revoke ==
    [][resp'.op = "revoke" =>
         LET s == resp'.target
             a == resp'.user
             sh == shares[s]
         IN  /\ a # sh.sender_user_id => (resp'.code = 403 /\ shares' = shares)
             /\ (a = sh.sender_user_id /\ sh.status \notin Terminal) =>
                   /\ resp'.code = 200
                   /\ shares' = [shares EXCEPT ![s].status = "revoked",
                                               ![s].revoked_at = now]
             /\ (a = sh.sender_user_id /\ sh.status = "revoked") =>
                   (resp'.code = 200 /\ shares' = shares)]_vars

\* the sender's second revoke of a Share to a registered recipient has
\* returned 200 and the Share still carries the first revoke's timestamp
C7_Witness ==
    /\ resp.op = "revoke" /\ resp.code = 200
    /\ shares[resp.target].status = "revoked"
    /\ shares[resp.target].recipient_user_id # 0
    /\ shares[resp.target].revoked_at < now - 1

ViewCountBounded ==
    \A s \in 1..Len(shares) :
        shares[s].max_views # 0 => shares[s].view_count <= shares[s].max_views

\* C8 as claimed: record_view on a Share that is revoked, failed, expired or
\* at its view limit fails and changes nothing; otherwise it increments
\* view_count by exactly one; view_count never decreases and never exceeds
\* max_views.
C8_RecordViewAsClaimed ==
    [][/\ resp'.op = "record_view" =>
            LET s == resp'.target
                sh == shares[s]
            IN  IF sh.status \in Terminal \/ Expired(sh, now) \/ ViewLimitReached(sh)
                THEN resp'.code # 200 /\ shares' = shares
                ELSE resp'.code = 200 /\ shares'[s].view_count = sh.view_count + 1
       /\ \A s \in 1..Len(shares) : shares'[s].view_count >= shares[s].view_count
       /\ ViewCountBounded']_vars

\* C8, amended: record_view also fails, changing nothing, on a Share whose
\* File has been soft-deleted; in every other case it increments view_count
\* by exactly one.
C8_RecordView ==
    [][/\ resp'.op = "record_view" =>
            LET s == resp'.target
                sh == shares[s]
            IN  IF \/ sh.status \in Terminal
                   \/ Expired(sh, now)
                   \/ ViewLimitReached(sh)
                   \/ FileGone(sh)
                THEN resp'.code # 200 /\ shares' = shares
                ELSE resp'.code = 200 /\ shares'[s].view_count = sh.view_count + 1
       /\ \A s \in 1..Len(shares) : shares'[s].view_count >= shares[s].view_count
       /\ ViewCountBounded']_vars

\* a view was refused on a Share that has used up its view limit
C8_Witness ==
    /\ resp.op = "record_view" /\ resp.code = 403
    /\ shares[resp.target].max_views = MaxViews
    /\ shares[resp.target].view_count = MaxViews
    /\ shares[resp.target].status = "viewed"

\* C10: no two Shares have the same transaction_id, no two Shares have the
\* same non-null share_token, and a Share's transaction_id never changes.
C10_UniqueIds ==
    [][/\ \A s, t \in 1..Len(shares') :
            s # t =>
              /\ shares'[s].transaction_id # shares'[t].transaction_id
              /\ (shares'[s].share_token # 0 =>
                    shares'[s].share_token # shares'[t].share_token)
       /\ \A s \in 1..Len(shares) :
            s <= Len(shares') /\ shares'[s].transaction_id = shares[s].transaction_id]_vars

\* the transaction_id part of C10 alone
TransactionIdUnique ==
    [][/\ \A s, t \in 1..Len(shares') :
            s # t => shares'[s].transaction_id # shares'[t].transaction_id
       /\ \A s \in 1..Len(shares) :
            s <= Len(shares') /\ shares'[s].transaction_id = shares[s].transaction_id]_vars


AllViewsDone == \A v \in Viewers : sessions[v].pc = "done"

\* C9: when MaxViewers concurrent record_view calls on a fresh Share without
\* view limit have all finished, view_count = MaxViewers, whatever the
\* interleaving.
C9_NoLostView ==
    AllViewsDone => shares[1].view_count = MaxViewers

\* every viewer has committed and the last of them stamped the Share
C9_Witness ==
    /\ AllViewsDone
    /\ shares[1].status = "viewed"
    /\ shares[1].last_viewed_at = now - 1
    /\ shares[1].first_viewed_at < shares[1].last_viewed_at

\* C11: a Share, once created, is never physically removed from the store by
\* any later operation.
C11_SharesKept ==
    [][\A s \in 1..Len(shares) :
          shares[s].present => (s <= Len(shares') /\ shares'[s].present)]_vars

\* body lists exactly the Shares S, newest first
ListsExactly(body, S) ==
    /\ {body[i].id : i \in 1..Len(body)} = S
    /\ Len(body) = Cardinality(S)
    /\ \A i, j \in 1..Len(body) : i < j => body[i].created_at >= body[j].created_at

\* C12: GET /shares/sent returns exactly the Shares whose sender_user_id is
\* the caller, GET /shares/received exactly those whose recipient_user_id is
\* the caller or whose recipient_email is the caller's email, each ordered by
\* creation time descending.
C12_Listings ==
    /\ resp.op = "get_sent_transactions" =>
          ListsExactly(resp.body,
              {s \in 1..Len(shares) :
                  shares[s].present /\ shares[s].sender_user_id = resp.user})
    /\ resp.op = "get_received_transactions" =>
          ListsExactly(resp.body,
              {s \in 1..Len(shares) :
                  /\ shares[s].present
                  /\ (shares[s].recipient_user_id = resp.user
                        \/ shares[s].recipient_email = resp.user)})

\* a user who registered after the Share was sent to their address finds it
\* in the received list, which leaves out the Share sent to somebody else
C12_Witness ==
    /\ resp.op = "get_received_transactions"
    /\ Len(resp.body) = 1
    /\ shares[resp.body[1].id].recipient_user_id = 0
    /\ shares[resp.body[1].id].recipient_email = resp.user
    /\ \E s \in 1..Len(shares) : shares[s].present /\ shares[s].recipient_email # resp.user

\* C13: delete_file leaves every user's sent and received list as it was, and
\* each listed Share shows the filename and size_bytes its File has now.
C13_ListedAfterDelete ==
    [][/\ resp'.op = "delete_file" =>
            \A u \in users : /\ SentListing(u)' = SentListing(u)
                             /\ ReceivedListing(u)' = ReceivedListing(u)
       /\ resp'.op \in {"get_sent_transactions", "get_received_transactions"} =>
            \A i \in 1..Len(resp'.body) :
               /\ resp'.body[i].filename = files'[resp'.body[i].file_id].filename
               /\ resp'.body[i].size_bytes = files'[resp'.body[i].file_id].size_bytes]_vars

\* the sent list shows a Share whose File has been soft-deleted
C13_Witness ==
    /\ resp.op = "get_sent_transactions"
    /\ Len(resp.body) >= 1
    /\ files[resp.body[1].file_id].deleted_at # 0
    /\ resp.body[1].filename = "Welcome.txt"

\* C14: the details and the receipt endpoint answer a caller who is neither
\* sender nor recipient of the Share with the 404 they give for a
\* transaction_id that does not exist: the response depends on the request
\* only.
C14_NonPartyNotFound ==
    [][(/\ resp'.op \in {"get_transaction_details", "get_transaction_receipt"}
        /\ \A s \in 1..Len(shares) :
              (shares[s].present /\ shares[s].transaction_id = resp'.target) =>
                  /\ shares[s].sender_user_id # resp'.user
                  /\ shares[s].recipient_user_id # resp'.user)
       => resp' = Reply(resp'.op, resp'.user, resp'.target, 0, 404,
                        "Transaction not found")]_vars

\* a registered user asked for an existing transaction between two others
C14_Witness ==
    /\ resp.op = "get_transaction_details"
    /\ resp.code = 404
    /\ \E s \in 1..Len(shares) :
          /\ shares[s].present
          /\ shares[s].transaction_id = resp.target
          /\ shares[s].sender_user_id # resp.user
          /\ shares[s].recipient_email # resp.user

\* C15: a call of get_transaction_receipt, whatever it answers, leaves every
\* Share, File and User row unchanged.
C15_ReceiptReadOnly ==
    [][resp'.op = "get_transaction_receipt" =>
          /\ shares' = shares
          /\ files' = files
          /\ folders' = folders
          /\ users' = users
          /\ storage_used_bytes' = storage_used_bytes
          /\ storage_quota_bytes' = storage_quota_bytes]_vars

\* the sender asked for the receipt of a delivered Share, found by the lookup
C15_Witness ==
    /\ resp.op = "get_transaction_receipt"
    /\ resp.code # 404
    /\ \E s \in 1..Len(shares) :
          /\ shares[s].present
          /\ shares[s].transaction_id = resp.target
          /\ shares[s].sender_user_id = resp.user
          /\ shares[s].status = "delivered"

\* the Shares with transaction_id txid of which u is sender or recipient
PartyShares(u, txid) ==
    {s \in 1..Len(shares) :
        /\ shares[s].present
        /\ shares[s].transaction_id = txid
        /\ (shares[s].sender_user_id = u \/ shares[s].recipient_user_id = u)}

\* C16: for a caller who is sender or recipient of the Share, the receipt's
\* status field is SUCCESS exactly when the Share's status is sent, delivered
\* or viewed, and is the literal status otherwise.
C16_ReceiptStatus ==
    [][(resp'.op = "get_transaction_receipt"
          /\ PartyShares(resp'.user, resp'.target) # {})
       => /\ resp'.code = 200
          /\ \A s \in PartyShares(resp'.user, resp'.target) :
                resp'.body.status =
                    IF shares[s].status \in {"sent", "delivered", "viewed"}
                    THEN "SUCCESS" ELSE shares[s].status]_vars

\* C17: a receipt generated a second time for the same unchanged Share and
\* File carries the same verification_signature and the same receipt_id as
\* the first.
C17_ReceiptStable ==
    [][(/\ resp.op = "get_transaction_receipt"
        /\ resp'.op = "get_transaction_receipt"
        /\ resp'.user = resp.user
        /\ resp'.target = resp.target
        /\ PartyShares(resp.user, resp.target) # {})
       => /\ resp.code = 200
          /\ resp'.code = 200
          /\ resp'.body.verification_signature = resp.body.verification_signature
          /\ resp'.body.receipt_id = resp.body.receipt_id]_vars

ShareApiOps ==
    {"send_file", "get_sent_transactions", "get_received_transactions",
     "get_transaction_details", "get_transaction_receipt"}

\* C19: no operation of the share API changes a File row or a user's
\* storage_used_bytes; storage_used_bytes of a user changes only in
\* complete_upload, upload_file_direct and delete_file.
C19_ShareApiFrame ==
    [][/\ resp'.op \in ShareApiOps =>
            (files' = files /\ storage_used_bytes' = storage_used_bytes)
       /\ (\E u \in users : storage_used_bytes'[u] # storage_used_bytes[u]) =>
            resp'.op \in {"complete_upload", "upload_file_direct", "delete_file"}]_vars

\* a File that has been counted into its owner's ledger was sent
C19_Witness ==
    /\ resp.op = "send_file"
    /\ resp.code = 201
    /\ counted[shares[resp.target].file_id]
    /\ storage_used_bytes[resp.user] = files[shares[resp.target].file_id].size_bytes

\* C20: a File on which delete_file succeeded stays soft-deleted, and is in
\* no get_files listing, in no search_files result and in no file_count of
\* get_folders from then on.
C20_DeletedNotListed ==
    [][/\ \A f \in 1..Len(files) :
            files[f].deleted_at # 0 => (f <= Len(files') /\ files'[f].deleted_at # 0)
       /\ (resp'.op \in {"get_files", "search_files"} /\ resp'.code = 200) =>
            \A i \in 1..Len(resp'.body) : files'[resp'.body[i].id].deleted_at = 0
       /\ resp'.op = "get_folders" =>
            \A d \in DOMAIN resp'.body :
               resp'.body[d].file_count =
                   Cardinality({f \in 1..Len(files') :
                                   /\ files'[f].present
                                   /\ files'[f].folder_id = d
                                   /\ files'[f].deleted_at = 0})]_vars

\* Welcome.txt was deleted and the owner's Personal folder, which still
\* holds its row, is listed with a file_count that leaves it out
C20_Witness ==
    /\ resp.op = "get_folders"
    /\ \E f \in 1..Len(files) :
          /\ files[f].present
          /\ files[f].deleted_at # 0
          /\ files[f].owner_user_id = resp.user
          /\ files[f].folder_id \in DOMAIN resp.body
          /\ resp.body[files[f].folder_id].file_count = 1

\* C24: delete_folder removes the folder and leaves every File that was
\* placed in it in existence, with folder_id set to none; it removes no File
\* row.
C24_FolderDeleteKeepsFiles ==
    [][(resp'.op = "delete_folder" /\ resp'.code = 200) =>
          \A f \in 1..Len(files) :
             files[f].present =>
                /\ files'[f].present
                /\ files'[f].folder_id =
                       IF files[f].folder_id = resp'.target THEN 0
                       ELSE files[f].folder_id]_vars

RECURSIVE SumSizes(_)
SumSizes(F) ==
    IF F = {} THEN 0
    ELSE LET f == CHOOSE g \in F : TRUE
         IN  files[f].size_bytes + SumSizes(F \ {f})

\* C25: in every committed state each user's storage_used_bytes equals the
\* sum of size_bytes over the user's existing Files that are not soft-deleted
\* and whose status is uploaded or hidden.
C25_LedgerSum ==
    \A u \in users :
        storage_used_bytes[u] =
            SumSizes({f \in 1..Len(files) :
                         /\ files[f].present
                         /\ files[f].owner_user_id = u
                         /\ files[f].deleted_at = 0
                         /\ files[f].status \in {"uploaded", "hidden"}})

\* C26: complete_upload on a File that is already uploaded, hidden or
\* soft-deleted does not add its size_bytes to storage_used_bytes again and
\* does not change its status.
C26_CompleteOnce ==
    [][(/\ resp'.op = "complete_upload"
        /\ resp'.code = 200
        /\ (files[resp'.target].status \in {"uploaded", "hidden"}
              \/ files[resp'.target].deleted_at # 0))
       => /\ storage_used_bytes' = storage_used_bytes
          /\ files'[resp'.target].status = files[resp'.target].status]_vars

\* C28: a caller who finds a Share in the received list, be it by
\* recipient_user_id or by recipient_email only, does not get 404 from
\* get_transaction_details or get_transaction_receipt for its transaction_id.
C28_ReceivedCanOpen ==
    [][(/\ resp'.op \in {"get_transaction_details", "get_transaction_receipt"}
        /\ \E s \in 1..Len(shares) :
              /\ shares[s].present
              /\ shares[s].transaction_id = resp'.target
              /\ (shares[s].recipient_user_id = resp'.user
                    \/ shares[s].recipient_email = resp'.user))
       => resp'.code # 404]_vars

\* C29: get_files and search_files return no File whose status is hidden and
\* no File whose status is uploading.
C29_HiddenNotListed ==
    [][(resp'.op \in {"get_files", "search_files"} /\ resp'.code = 200) =>
          \A i \in 1..Len(resp'.body) :
             files'[resp'.body[i].id].status \notin {"hidden", "uploading"}]_vars

\* C30: a File's folder_id, when set, refers to a Folder of the File's owner,
\* a Folder's parent_folder_id, when set, to a Folder of the same user, and a
\* delete_folder by one user changes no File and no Folder of another user.
C30_OwnershipClosure ==
    [][/\ \A f \in 1..Len(files') :
            (files'[f].present /\ files'[f].folder_id # 0) =>
                folders'[files'[f].folder_id].owner_user_id = files'[f].owner_user_id
       /\ \A d \in 1..Len(folders') :
            (folders'[d].present /\ folders'[d].parent_folder_id # 0) =>
                folders'[folders'[d].parent_folder_id].owner_user_id
                    = folders'[d].owner_user_id
       /\ resp'.op = "delete_folder" =>
            /\ \A f \in 1..Len(files) :
                  files[f].owner_user_id # resp'.user => files'[f] = files[f]
            /\ \A d \in 1..Len(folders) :
                  folders[d].owner_user_id # resp'.user => folders'[d] = folders[d]]_vars

\* the folder reached from d after at most n steps along parent_folder_id, 0
\* when the chain has ended
RECURSIVE Climb(_, _)
Climb(d, n) ==
    IF d = 0 \/ n = 0 THEN d ELSE Climb(folders[d].parent_folder_id, n - 1)

\* C23: the parent_folder_id chain of every folder is acyclic: following
\* parents from any folder ends at a folder without parent, and no folder is
\* its own ancestor.
C23_Acyclic ==
    \A d \in 1..Len(folders) :
        folders[d].present =>
            /\ Climb(d, Len(folders)) = 0
            /\ \A n \in 1..Len(folders) : Climb(d, n) # d

\* a folder was created below a folder that was created below a default
\* folder
C23_Witness ==
    /\ resp.op = "create_folder"
    /\ resp.code = 201
    /\ folders[resp.target].parent_folder_id # 0
    /\ folders[folders[resp.target].parent_folder_id].parent_folder_id # 0

RECURSIVE SumDelta(_, _)
SumDelta(u, V) ==
    IF V = {} THEN 0
    ELSE LET v == CHOOSE x \in V : TRUE
         IN  (IF sessions[v].pc = "done" /\ sessions[v].seen.user = u
              THEN sessions[v].seen.delta ELSE 0) + SumDelta(u, V \ {v})

\* C27: once every concurrent quota-changing request has finished, each
\* user's storage_used_bytes is the initial value (0 after register) plus the
\* sizes added minus the sizes removed by the requests that committed.
C27_NoLostAdjustment ==
    (\A v \in Viewers : sessions[v].pc # "read") =>
        \A u \in users : storage_used_bytes[u] = SumDelta(u, Viewers)

\* C21: a request answered with a failed validation or ownership check (400,
\* 404) leaves users, ledger, folders, files and shares as they were, and a
\* request answered with success made all of its changes in the step that
\* answers: none of them was committed before.
C21_AllOrNothing ==
    [][/\ (now' # now /\ resp'.code \in {400, 404}) =>
            (ledger' = ledger /\ shares' = shares)
       /\ (now' # now /\ resp'.code \in {200, 201} /\ resp'.op = "register") =>
            sessions[resp'.user].pc # "committed"]_vars

====
